---- MODULE Spec2Model ----
(***************************************************************************)
(* Batch inventory ledger and demand-driven replenishment of the Smart     *)
(* Campus Store backend (backend/main.py, backend/models.py,               *)
(* backend/database.py).                                                   *)
(*                                                                         *)
(* The persisted state is the five tables products, batches, transactions, *)
(* suppliers and purchase_orders.  Every request handler works on a        *)
(* SQLAlchemy session (autoflush off): objects it loads or adds are        *)
(* changed in the session only, db.commit() writes the session to the      *)
(* tables, and db.close() (get_db's finally) discards what was not         *)
(* committed.                                                              *)
(*                                                                         *)
(* Spec       : the handlers run one at a time, one action per handler.    *)
(* ConcSpec   : two sale requests run in two threads, one action per       *)
(*              database round trip.                                       *)
(* ExpirySpec : the read handlers that report expiry states and the pulse  *)
(*              discount, over a stock of batches around the boundaries.   *)
(* MlSpec     : the seasonal forecaster (backend/ml_engine.py): training   *)
(*              runs and predictions on the process-wide instance.         *)
(* TriggerSpec: sales on a store whose sales history, stock and orders are *)
(*              drawn around the thresholds of the replenishment trigger.  *)
(* DeleteSpec : deletions of products among sales, wastages and restocks.  *)
(* RestockSpec: two restock requests run in two threads.                   *)
(***************************************************************************)
EXTENDS Integers, Sequences, FiniteSets, TLC

\* ------------------------------------------------------------------ bounds
\* Number of rows the transactions table may reach in a run.
MaxTx == 5

\* Product ids that exist at start-up; MissingProduct is an id of no row.
ProductIds == {1, 2}
MissingProduct == Cardinality(ProductIds) + 1
\* Quantities a request may carry (the schemas accept any integer).
QtySet == {-1, 2, 4}
\* Expiry dates (day numbers, today is day 0) a restock request may carry.
ExpirySet == {-5, 60}

\* batch_id of a request or a transaction that names no batch (Optional[int] = None).
None == 0

\* Program constants of the replenishment trigger.
\* Length in days of the trailing window of the velocity.
Window == 30
\* Smallest quantity of a drafted order.
MinOrder == 20
\* Days of projected demand a drafted order covers.
CoverDays == 7

\* ------------------------------------------------------------- the state
VARIABLES
    products,         \* rows of table products: the set of product ids
    batches,          \* rows of table batches, indexed by id
    transactions,     \* rows of table transactions, indexed by id
    suppliers,        \* rows of table suppliers, indexed by id
    purchase_orders,  \* rows of table purchase_orders, indexed by id
    now,              \* today's day number
    resp,             \* the last request handled and the answer it got
    sess,             \* ConcSpec: the session of each request thread
    seasonal_analyzer \* the forecaster of the process: its models and is_trained

vars == <<products, batches, transactions, suppliers, purchase_orders, now, resp, sess,
          seasonal_analyzer>>

\* Product.category of the two products: the first has a seeded supplier.
category(p) == IF p = 1 THEN "Dairy" ELSE "Stationery"

\* --------------------------------------------------------------- helpers
Min(a, b) == IF a <= b THEN a ELSE b
Max(a, b) == IF a >= b THEN a ELSE b

\* round(num / den, 0) for num >= 0, den > 0: the nearest integer, a tie to the
\* even one.
round(num, den) ==
    LET q == num \div den
        r == num % den
    IN  IF 2 * r < den THEN q
        ELSE IF 2 * r > den THEN q + 1
        ELSE IF q % 2 = 0 THEN q ELSE q + 1

RECURSIVE SumOver(_, _)
\* Sum of f[i] over the finite set S of indices.
SumOver(f, S) ==
    IF S = {} THEN 0
    ELSE LET i == CHOOSE x \in S : TRUE IN f[i] + SumOver(f, S \ {i})

\* Mutant of total_stock: the sum without the filter on the quantity.
total_stock_unfiltered(bs, p) ==
    SumOver([i \in DOMAIN bs |-> bs[i].quantity],
            {i \in DOMAIN bs : bs[i].product_id = p})

\* Product.total_stock: the quantities of the product's batches with quantity > 0.
total_stock(bs, p) ==
    SumOver([i \in DOMAIN bs |-> bs[i].quantity],
            {i \in DOMAIN bs : bs[i].product_id = p /\ bs[i].quantity > 0})

\* ------------------------------------------------------------ the session
\* Rows the FIFO query of a sale returns: the product's batches with quantity > 0.
in_stock(bs, p) == {i \in DOMAIN bs : bs[i].product_id = p /\ bs[i].quantity > 0}

RECURSIVE OrderedBy(_, _)
\* The orders in which ORDER BY expiry_date may return the rows S: ascending by
\* expiry_date, rows of equal expiry_date in any order.
OrderedBy(bs, S) ==
    IF S = {} THEN {<<>>}
    ELSE LET first == {i \in S : \A j \in S : bs[i].expiry_date <= bs[j].expiry_date}
         IN UNION {{<<i>> \o t : t \in OrderedBy(bs, S \ {i})} : i \in first}

RECURSIVE ById(_)
\* The rows S in the order of their ids.
ById(S) ==
    IF S = {} THEN <<>>
    ELSE LET i == CHOOSE x \in S : \A y \in S : x <= y IN <<i>> \o ById(S \ {i})

\* Mutant of FifoOrders: the query without its ORDER BY returns the rows by id.
FifoOrders_ById(bs, p) == {ById(in_stock(bs, p))}

\* The result lists of the sale's batch query.
FifoOrders(bs, p) == OrderedBy(bs, in_stock(bs, p))

RECURSIVE allocate(_, _, _, _)
\* The FIFO loop of a sale over the queried rows, from position k on: the session's
\* batches after the loop and what is left of the requested quantity.
allocate(bs, order, k, remaining) ==
    IF k > Len(order) \/ remaining <= 0
    THEN [batches |-> bs, remaining |-> remaining]
    ELSE LET id == order[k]
             deduct == Min(bs[id].quantity, remaining)
         IN allocate([bs EXCEPT ![id].quantity = @ - deduct], order, k + 1,
                     remaining - deduct)

\* The check after the loop that rejects the sale.
insufficient(remaining) == remaining > 0

\* Mutant of wasted: the subtraction without the clamp at 0.
wasted_unclamped(quantity, requested) == quantity - requested

\* The quantity a wastage leaves in the named batch.
wasted(quantity, requested) == Max(0, quantity - requested)

\* db.commit(): the UPDATEs of a flush. A row whose quantity the session changed
\* since it was loaded is written with the session's value; other rows are left.
flush(db, loaded, session) ==
    [i \in DOMAIN db |->
        IF i \in DOMAIN session /\ session[i].quantity # loaded[i].quantity
        THEN [db[i] EXCEPT !.quantity = session[i].quantity]
        ELSE db[i]]

\* Mutant of close: closing the session writes what it holds.
close_commits(db, loaded, session) == flush(db, loaded, session)

\* db.close() without a commit (get_db's finally): the session's changes are dropped.
close(db, loaded, session) == db

\* ------------------------------------------------- replenishment trigger
\* Mutant of recent_sales_qty: the sales of all time are summed.
recent_sales_qty_all_time(txs, p, today) ==
    SumOver([i \in DOMAIN txs |-> txs[i].quantity],
            {i \in DOMAIN txs : /\ txs[i].product_id = p
                                /\ txs[i].transaction_type = "sale"})

\* recent_sales_qty: the sum of the quantities of the product's sale transactions
\* dated within the last Window days (0 when there is none).
recent_sales_qty(txs, p, today) ==
    SumOver([i \in DOMAIN txs |-> txs[i].quantity],
            {i \in DOMAIN txs : /\ txs[i].product_id = p
                                /\ txs[i].transaction_type = "sale"
                                /\ txs[i].transaction_date >= today - Window})

\* avg_daily_sales > 0.1, with avg_daily_sales = recent / 30.0.
velocity_ok(recent) == 10 * recent > Window

\* days_until_stockout <= 2.0, with days_until_stockout = stock / avg_daily_sales
\* (evaluated only when avg_daily_sales > 0.1).
stockout_soon(stock, recent) == Window * stock <= 2 * recent

\* The statuses under which an order suppresses a new one.
ActiveStatuses == {"draft", "sent"}

\* Mutant of existing_po: only draft orders suppress a new one.
existing_po_draft_only(pos, p) ==
    {i \in DOMAIN pos : pos[i].product_id = p /\ pos[i].status = "draft"}

\* existing_po: the ids of the product's orders with status draft or sent.
existing_po(pos, p) ==
    {i \in DOMAIN pos : pos[i].product_id = p /\ pos[i].status \in ActiveStatuses}

\* The ids of the suppliers of a category.
supplier_of(sups, cat) == {i \in DOMAIN sups : sups[i].category = cat}

\* order_qty = max(20, int(avg_daily_sales * 7)).
order_qty(recent) == Max(MinOrder, (recent * CoverDays) \div Window)

\* The row the trigger adds to purchase_orders.
new_order(sups, p, recent) ==
    [supplier_id |-> CHOOSE i \in supplier_of(sups, category(p)) : TRUE,
     product_id  |-> p,
     quantity    |-> order_qty(recent),
     status      |-> "draft"]

\* The steps of the trigger at which a database call may raise.
TriggerSteps == {"velocity", "stock", "po_lookup", "supplier_lookup", "po_commit"}

\* The trigger of a committed sale of product p, read from the tables txs, bs, pos
\* and sups. fault names the step whose database call raises ("none": no call
\* raises); an exception at a step that is reached ends the trigger in the
\* except clause. Result: the purchase_orders table, the way the trigger ended
\* and the value of current_stock (the empty set when it was not read).
trigger(txs, bs, pos, sups, p, today, fault) ==
    LET recent == recent_sales_qty(txs, p, today)
        stock  == total_stock(bs, p)
        error  == [orders |-> pos, outcome |-> "error", stock |-> {stock}]
        quiet  == [orders |-> pos, outcome |-> "no_order", stock |-> {stock}]
        sup    == supplier_of(sups, category(p))
    IN  IF fault \in {"velocity", "stock"} THEN [error EXCEPT !.stock = {}]
        ELSE IF ~velocity_ok(recent) THEN quiet
        ELSE IF ~stockout_soon(stock, recent) THEN quiet
        ELSE IF fault = "po_lookup" THEN error
        ELSE IF existing_po(pos, p) # {} THEN quiet
        ELSE IF fault = "supplier_lookup" THEN error
        ELSE IF sup = {} THEN quiet
        ELSE IF fault = "po_commit" THEN error
        ELSE [orders |-> Append(pos, new_order(sups, p, recent)),
              outcome |-> "order", stock |-> {stock}]

\* Mutant of sale_status: an error of the trigger is raised to the caller.
sale_status_raises(outcome) == IF outcome = "error" THEN 500 ELSE 200

\* The status the sale answers with once its transaction is committed, for each
\* way the trigger may end: the except clause swallows the error and tx is returned.
sale_status(outcome) == 200

\* --------------------------------------------------------------- requests
\* A row of table transactions as create_transaction builds it.
Transaction(p, b, t, q) ==
    [product_id |-> p, batch_id |-> b, transaction_type |-> t, quantity |-> q,
     transaction_date |-> now]

\* The answer to a request, with the tables as the request found them.
Response(op, p, b, q, status, outcome, session) ==
    [op |-> op, product_id |-> p, batch_id |-> b, quantity |-> q, status |-> status,
     trigger |-> outcome, before |-> batches, session |-> session,
     ntx |-> Len(transactions), npo |-> Len(purchase_orders), stock |-> {}]

\* Mutant of NotFound: the handler goes on without the product and records the
\* transaction of the request.
NotFound_Recorded(op, p, b, q) ==
    /\ Len(transactions) < MaxTx
    /\ transactions' = Append(transactions, Transaction(p, b, op, q))
    /\ resp' = Response(op, p, b, q, 200, "none", batches)
    /\ UNCHANGED <<products, batches, suppliers, purchase_orders, now, sess,
                   seasonal_analyzer>>

\* A request naming a product that has no row: HTTP 404, nothing is written.
NotFound(op, p, b, q) ==
    /\ resp' = Response(op, p, b, q, 404, "none", batches)
    /\ UNCHANGED <<products, batches, transactions, suppliers, purchase_orders, now, sess,
                   seasonal_analyzer>>

\* POST /api/transactions with transaction_type "sale".
Sale(p, q) ==
    IF p \notin products THEN NotFound("sale", p, None, q)
    ELSE \E order \in FifoOrders(batches, p) :
        LET s == allocate(batches, order, 1, q) IN
        IF insufficient(s.remaining)
        THEN /\ batches' = close(batches, batches, s.batches)
             /\ resp' = Response("sale", p, None, q, 400, "none", s.batches)
             /\ UNCHANGED <<products, transactions, suppliers, purchase_orders, now, sess,
                   seasonal_analyzer>>
        ELSE /\ Len(transactions) < MaxTx
             /\ batches' = flush(batches, batches, s.batches)
             /\ transactions' = Append(transactions, Transaction(p, None, "sale", q))
             /\ \E fault \in TriggerSteps \cup {"none"} :
                  LET t == trigger(transactions', batches', purchase_orders,
                                   suppliers, p, now, fault)
                  IN /\ purchase_orders' = t.orders
                     /\ resp' = [Response("sale", p, None, q, sale_status(t.outcome),
                                          t.outcome, s.batches)
                                     EXCEPT !.stock = t.stock]
             /\ UNCHANGED <<products, suppliers, now, sess,
                   seasonal_analyzer>>

\* Mutant of Wastage: the trigger runs after the wastage is committed.
Wastage_Triggered(p, b, q) ==
    /\ p \in products
    /\ Len(transactions) < MaxTx
    /\ batches' = flush(batches, batches,
                        IF b # None /\ b \in DOMAIN batches
                        THEN [batches EXCEPT ![b].quantity = wasted(@, q)]
                        ELSE batches)
    /\ transactions' = Append(transactions, Transaction(p, b, "wastage", q))
    /\ purchase_orders' = trigger(transactions', batches', purchase_orders,
                                  suppliers, p, now, "none").orders
    /\ resp' = Response("wastage", p, b, q, 200, "none", batches')
    /\ UNCHANGED <<products, suppliers, now, sess, seasonal_analyzer>>

\* POST /api/transactions with transaction_type "wastage"; b is the batch_id of the
\* request (None, the id of a row, or an id of no row).
Wastage(p, b, q) ==
    IF p \notin products THEN NotFound("wastage", p, b, q)
    ELSE LET session == IF b # None /\ b \in DOMAIN batches
                        THEN [batches EXCEPT ![b].quantity = wasted(@, q)]
                        ELSE batches
         IN /\ Len(transactions) < MaxTx
            /\ batches' = flush(batches, batches, session)
            /\ transactions' = Append(transactions, Transaction(p, b, "wastage", q))
            /\ resp' = Response("wastage", p, b, q, 200, "none", session)
            /\ UNCHANGED <<products, suppliers, purchase_orders, now, sess,
                   seasonal_analyzer>>

\* The other values of transaction_type a request may carry (the schema takes any
\* string): "restock", and a string that names no kind of transaction.
OtherTypes == {"restock", "refund"}

\* POST /api/transactions with a transaction_type that is neither sale nor wastage:
\* only the transaction row is written.
Record(p, t, q) ==
    IF p \notin products THEN NotFound(t, p, None, q)
    ELSE /\ Len(transactions) < MaxTx
         /\ transactions' = Append(transactions, Transaction(p, None, t, q))
         /\ resp' = Response(t, p, None, q, 200, "none", batches)
         /\ UNCHANGED <<products, batches, suppliers, purchase_orders, now, sess,
                   seasonal_analyzer>>

\* The number create_batch puts in batch_number: the count of the product's rows + 1.
batch_number(bs, p) == Cardinality({i \in DOMAIN bs : bs[i].product_id = p}) + 1

\* POST /api/batches: a restock.
create_batch(p, q, e) ==
    IF p \notin products THEN NotFound("create_batch", p, None, q)
    ELSE /\ Len(transactions) < MaxTx
         /\ batches' = Append(batches, [product_id |-> p, quantity |-> q,
                                        expiry_date |-> e,
                                        batch_number |-> batch_number(batches, p)])
         /\ transactions' = Append(transactions, Transaction(p, None, "restock", q))
         /\ resp' = Response("create_batch", p, None, q, 200, "none", batches')
         /\ UNCHANGED <<products, suppliers, purchase_orders, now, sess,
                   seasonal_analyzer>>

\* Mutant of cascade: the rows of every product are deleted.
cascade_all(rows, p) == <<>>

\* cascade="all, delete-orphan" on Product.batches and Product.transactions: the
\* rows of a table that are left when product p is deleted. The ids of the rows are
\* their positions; the rows that remain keep their order.
cascade(rows, p) == SelectSeq(rows, LAMBDA r : r.product_id # p)

\* Mutant of delete_product: the orders of the product are deleted with it.
delete_product_and_orders(p) ==
    /\ p \in products
    /\ products' = products \ {p}
    /\ batches' = cascade(batches, p)
    /\ transactions' = cascade(transactions, p)
    /\ purchase_orders' = cascade(purchase_orders, p)
    /\ resp' = Response("delete_product", p, None, 0, 200, "none", batches')
    /\ UNCHANGED <<suppliers, now, sess, seasonal_analyzer>>

\* DELETE /api/products/{product_id}: 404 for a product of no row; db.delete(product)
\* and one commit, which deletes the product's batches and transactions with it.
\* No relationship of Product reaches purchase_orders or suppliers, and the default
\* SQLite engine does not enforce the foreign key of purchase_orders.product_id.
delete_product(p) ==
    IF p \notin products THEN NotFound("delete_product", p, None, 0)
    ELSE /\ products' = products \ {p}
         /\ batches' = cascade(batches, p)
         /\ transactions' = cascade(transactions, p)
         /\ resp' = Response("delete_product", p, None, 0, 200, "none", batches')
         /\ UNCHANGED <<suppliers, purchase_orders, now, sess, seasonal_analyzer>>

\* The procurement workflow moves an order forward: draft to sent, sent to received.
AdvanceOrder(i) ==
    /\ purchase_orders[i].status \in ActiveStatuses
    /\ purchase_orders' = [purchase_orders EXCEPT ![i].status =
                              IF @ = "draft" THEN "sent" ELSE "received"]
    /\ UNCHANGED <<products, batches, transactions, suppliers, now, resp, sess,
                   seasonal_analyzer>>

\* ------------------------------------------------------------ forecaster
\* SeasonalAnalyzer.__init__: no model, not trained.
SeasonalAnalyzer == [models |-> [c \in {} |-> None], is_trained |-> FALSE]

\* Strings are sequences of characters, so that lower() and the substring test
\* "in" are computed.
UpperCase == <<"A", "B", "C", "D", "E", "F", "G", "H", "I", "J", "K", "L", "M">>
                 \o <<"N", "O", "P", "Q", "R", "S", "T", "U", "V", "W", "X", "Y", "Z">>
LowerCase == <<"a", "b", "c", "d", "e", "f", "g", "h", "i", "j", "k", "l", "m">>
                 \o <<"n", "o", "p", "q", "r", "s", "t", "u", "v", "w", "x", "y", "z">>

\* str.lower().
lower(text) ==
    [i \in DOMAIN text |->
        IF \E k \in DOMAIN UpperCase : UpperCase[k] = text[i]
        THEN LowerCase[CHOOSE k \in DOMAIN UpperCase : UpperCase[k] = text[i]]
        ELSE text[i]]

\* word in text: word is a substring of text.
contains(text, word) ==
    \E i \in 0 .. Len(text) - Len(word) : SubSeq(text, i + 1, i + Len(word)) = word

\* The keywords of the heuristics.
drink      == <<"d", "r", "i", "n", "k">>
beverage   == <<"b", "e", "v", "e", "r", "a", "g", "e">>
juice      == <<"j", "u", "i", "c", "e">>
cold       == <<"c", "o", "l", "d">>
cream      == <<"c", "r", "e", "a", "m">>
frozen     == <<"f", "r", "o", "z", "e", "n">>
stationery == <<"s", "t", "a", "t", "i", "o", "n", "e", "r", "y">>
book       == <<"b", "o", "o", "k">>
pen        == <<"p", "e", "n">>
snack      == <<"s", "n", "a", "c", "k">>
food       == <<"f", "o", "o", "d">>

\* The multiplier of _get_heuristic_prediction for the lower-cased name cat, in
\* tenths (10 is 1.0).
multiplier(cat, month) ==
    IF \E w \in {drink, beverage, juice, cold} : contains(cat, w)
    THEN IF 4 <= month /\ month <= 7 THEN 18
         ELSE IF month \in {12, 1, 2} THEN 6
         ELSE 10
    ELSE IF \E w \in {cream, frozen} : contains(cat, w)
    THEN IF 4 <= month /\ month <= 8 THEN 20 ELSE 5
    ELSE IF \E w \in {stationery, book, pen} : contains(cat, w)
    THEN IF month \in {3, 4, 11, 12} THEN 15
         ELSE IF month = 6 THEN 13
         ELSE 10
    ELSE IF \E w \in {snack, food} : contains(cat, w)
    THEN IF month \in {10, 11, 12} THEN 12 ELSE 10
    ELSE 10

\* base_demand of the heuristics, in units.
BaseDemand == 50

\* Mutant of get_heuristic_prediction: the keywords are matched on the name as given.
get_heuristic_prediction_cased(name, month) ==
    round(100 * BaseDemand * multiplier(name, month), 10)

\* _get_heuristic_prediction: round(base_demand * multiplier, 2), in hundredths.
get_heuristic_prediction(name, month) ==
    round(100 * BaseDemand * multiplier(lower(name), month), 10)

\* The confidence of a heuristic prediction (0.5), in hundredths.
HeuristicConfidence == 50

\* The number of data points at which the confidence of a model reaches 1.0.
FullConfidencePoints == 50

\* round(min(1.0, data_points / 50), 2), in hundredths.
confidence(data_points) == Min(100, round(100 * data_points, FullConfidencePoints))

\* predict_demand: the heuristic prediction for a category without a model; for a
\* trained category max(0, value of the fitted polynomial) and the confidence of
\* its data points. raw is the value of the polynomial at the month, in
\* hundredths (the regression itself is not computed here).
predict_demand(analyzer, name, month, raw) ==
    IF name \notin DOMAIN analyzer.models
    THEN [category |-> name, month |-> month,
          predicted_demand |-> get_heuristic_prediction(name, month),
          confidence |-> HeuristicConfidence]
    ELSE [category |-> name, month |-> month,
          predicted_demand |-> Max(0, raw),
          confidence |-> confidence(analyzer.models[name].data_points)]

\* The smallest number of years (_train) and of months (_train_from_sales) of data
\* for which a category gets a model.
MinYears == 3
MinMonths == 2

\* The model a training run stores for a category. A fitted regression is a
\* function of the data it was fitted on: the model is named by that data, a slice
\* of the dataset (its number of year or month groups and its number of rows).
fitted(slice) ==
    [fitted_on   |-> [groups |-> slice.groups, data_points |-> slice.data_points],
     data_points |-> slice.data_points]

\* self.models[category] = {...}.
store(models, slice) ==
    [c \in DOMAIN models \cup {slice.category} |->
        IF c = slice.category THEN fitted(slice) ELSE models[c]]

RECURSIVE train_loop(_, _, _, _)
\* The loop over the categories of a dataset, from slice k on. A category with
\* fewer than min_groups groups is skipped; the fit of a category whose aggregates
\* are unusable (slice.bad) raises; every other category gets its model stored.
\* Result: the models when the loop ends, and whether it ended in an exception.
train_loop(models, slices, k, min_groups) ==
    IF k > Len(slices) THEN [models |-> models, raised |-> FALSE]
    ELSE IF slices[k].groups < min_groups
         THEN train_loop(models, slices, k + 1, min_groups)
    ELSE IF slices[k].bad THEN [models |-> models, raised |-> TRUE]
    ELSE train_loop(store(models, slices[k]), slices, k + 1, min_groups)

\* _train and _train_from_sales: the loop, then self.is_trained = True (not reached
\* when the loop raises).
train(analyzer, slices, min_groups) ==
    LET r == train_loop(analyzer.models, slices, 1, min_groups)
    IN  [analyzer |-> [models     |-> r.models,
                       is_trained |-> IF r.raised THEN analyzer.is_trained ELSE TRUE],
         raised   |-> r.raised]

\* train_from_csv on the dataset d: pd.read_csv and _train inside try/except. Result:
\* the forecaster after the call, whether the run failed and whether the call
\* raised to its caller (never: the exception is caught and printed).
train_from_csv(analyzer, d) ==
    LET r == IF d.readable THEN train(analyzer, d.slices, MinYears)
             ELSE [analyzer |-> analyzer, raised |-> TRUE]
    IN  [analyzer |-> r.analyzer, failed |-> r.raised, raised |-> FALSE]

\* train_from_transactions on the dataset d: an empty list returns at once; the rows
\* are built from the transactions' attributes (raises on a malformed one) and
\* passed to _train_from_sales; nothing catches an exception.
train_from_transactions(analyzer, d) ==
    IF d.slices = <<>> THEN [analyzer |-> analyzer, failed |-> FALSE, raised |-> FALSE]
    ELSE LET r == IF d.readable THEN train(analyzer, d.slices, MinMonths)
                  ELSE [analyzer |-> analyzer, raised |-> TRUE]
         IN  [analyzer |-> r.analyzer, failed |-> r.raised, raised |-> r.raised]

\* A training call on the process-wide forecaster, through the entry point op.
Train(op, d) ==
    LET r == IF op = "train_from_csv" THEN train_from_csv(seasonal_analyzer, d)
             ELSE train_from_transactions(seasonal_analyzer, d)
    IN  /\ seasonal_analyzer' = r.analyzer
        /\ resp' = [op |-> op, dataset |-> d, before |-> seasonal_analyzer,
                    failed |-> r.failed, raised |-> r.raised]
        /\ UNCHANGED <<products, batches, transactions, suppliers, purchase_orders,
                       now, sess>>

\* A prediction asked of the process-wide forecaster (GET /api/ml/seasonal).
Predict(name, month, raw) ==
    /\ resp' = [op |-> "predict_demand"]
                  @@ predict_demand(seasonal_analyzer, name, month, raw)
    /\ UNCHANGED <<products, batches, transactions, suppliers, purchase_orders,
                   now, sess, seasonal_analyzer>>

\* ------------------------------------------------------ expiry read paths
\* (expiry_date - date.today()).days of a batch.
days_left(b, today) == b.expiry_date - today

\* Mutant of expiry_status: the critical band ends before day 7, as in the alerts.
expiry_status_lt7(b, today) ==
    LET d == days_left(b, today)
    IN  IF d <= 0 THEN "expired"
        ELSE IF d < 7 THEN "critical"
        ELSE IF d <= 15 THEN "warning"
        ELSE "fresh"

\* Batch.expiry_status, the property serialised in BatchInfo.
expiry_status(b, today) ==
    LET d == days_left(b, today)
    IN  IF d <= 0 THEN "expired"
        ELSE IF d <= 7 THEN "critical"
        ELSE IF d <= 15 THEN "warning"
        ELSE "fresh"

\* The status get_expiring_batches puts in an ExpiryAlert.
expiring_status(d) ==
    IF d <= 0 THEN "expired"
    ELSE IF d < 7 THEN "critical"
    ELSE IF d <= 15 THEN "warning"
    ELSE "good"

\* The status daily_cron_check computes for a batch.
cron_status(d) ==
    IF d <= 0 THEN "expired"
    ELSE IF d < 7 THEN "critical"
    ELSE IF d <= 15 THEN "warning"
    ELSE "good"

\* The status get_dashboard puts in an ExpiryAlert.
dashboard_status(d) ==
    IF d <= 0 THEN "expired"
    ELSE IF d < 7 THEN "critical"
    ELSE IF d <= 15 THEN "warning"
    ELSE "good"

\* The ids of the batches of product p (Product.batches).
batches_of(bs, p) == {i \in DOMAIN bs : bs[i].product_id = p}

\* The look-ahead of the dashboard and the default of get_expiring_batches, in days.
YearDays == 365

\* The rows the expiring query returns: expiry_date <= today + days, quantity > 0.
expiring_within(bs, today, days) ==
    {i \in DOMAIN bs : bs[i].expiry_date <= today + days /\ bs[i].quantity > 0}

\* Product.mrp in cents: 45.00 for the first product, 29.99 for the second.
mrp(p) == IF p = 1 THEN 4500 ELSE 2999

\* The discount of the pulse engine, in percent.
DiscountPct == 20

\* Mutant of near_expiry: the band includes day 7, as in Batch.expiry_status.
near_expiry_le7(b, today) == b.quantity > 0 /\ 0 < days_left(b, today) /\ days_left(b, today) <= 7

\* The test of get_pulse_discount on a batch: in stock and 0 < days_left < 7.
near_expiry(b, today) == b.quantity > 0 /\ 0 < days_left(b, today) /\ days_left(b, today) < 7

\* The answer of a read request: what it reports, the tables are not written.
Report(r) ==
    /\ resp' = r
    /\ UNCHANGED <<products, batches, transactions, suppliers, purchase_orders, now, sess,
                   seasonal_analyzer>>

\* GET /api/products/{product_id}: total_stock and the BatchInfo of every batch.
get_product(p) ==
    IF p \notin products THEN NotFound("get_product", p, None, 0)
    ELSE Report([op |-> "get_product", product_id |-> p, status |-> 200,
                 total_stock |-> total_stock(batches, p),
                 statuses |-> [i \in batches_of(batches, p) |->
                                  expiry_status(batches[i], now)]])

\* GET /api/batches/expiring?days=N: an ExpiryAlert for every row of the query.
get_expiring_batches(days) ==
    Report([op |-> "get_expiring_batches", product_id |-> None, status |-> 200,
            statuses |-> [i \in expiring_within(batches, now, days) |->
                             expiring_status(days_left(batches[i], now))]])

\* GET /api/cron/daily-check: an alert for every batch in stock that is not good.
daily_cron_check ==
    Report([op |-> "daily_cron_check", product_id |-> None, status |-> 200,
            statuses |->
                [i \in {j \in DOMAIN batches :
                           /\ batches[j].quantity > 0
                           /\ cron_status(days_left(batches[j], now)) # "good"}
                   |-> cron_status(days_left(batches[i], now))]])

\* GET /api/dashboard: the expiry alerts and the count of the batches at risk.
get_dashboard ==
    LET alerts == [i \in expiring_within(batches, now, YearDays) |->
                      dashboard_status(days_left(batches[i], now))]
    IN  Report([op |-> "get_dashboard", product_id |-> None, status |-> 200,
                statuses |-> alerts,
                expiring_soon |->
                    Cardinality({i \in DOMAIN alerts : alerts[i] # "good"})])

\* GET /api/products/{product_id}/pulse; the prices are in cents.
get_pulse_discount(p) ==
    IF p \notin products THEN NotFound("get_pulse_discount", p, None, 0)
    ELSE LET near_expiry_batches ==
                 {i \in batches_of(batches, p) : near_expiry(batches[i], now)}
             has_discount == near_expiry_batches # {}
             discount_pct == IF has_discount THEN DiscountPct ELSE 0
         IN  Report([op |-> "get_pulse_discount", product_id |-> p, status |-> 200,
                     original_price |-> mrp(p),
                     has_discount |-> has_discount,
                     discount_pct |-> discount_pct,
                     discounted_price |->
                         IF has_discount
                         THEN round(mrp(p) * (100 - discount_pct), 100)
                         ELSE mrp(p),
                     near_expiry_batches |-> near_expiry_batches])

\* ------------------------------------------------- two concurrent sales
\* The request threads of ConcSpec.
Workers == {1, 2}

\* The session of a thread that has no request yet.
Idle == [pc |-> "idle", product_id |-> None, quantity |-> 0, loaded |-> <<>>,
         session |-> <<>>, recent |-> 0, stock |-> 0, status |-> 0]

\* The session of thread w ends with the answer status.
Done(w, status) == [sess EXCEPT ![w].pc = "done", ![w].status = status]

\* A sale request arrives at thread w: the product and batch queries, then the FIFO
\* loop and the stock check on the rows the session loaded.
Begin(w, p, q) ==
    /\ sess[w].pc = "idle"
    /\ \E order \in FifoOrders(batches, p) :
          LET s == allocate(batches, order, 1, q) IN
          IF insufficient(s.remaining)
          THEN /\ batches' = close(batches, batches, s.batches)
               /\ sess' = [sess EXCEPT ![w] = [Idle EXCEPT !.pc = "done",
                               !.product_id = p, !.quantity = q, !.status = 400]]
          ELSE /\ batches' = batches
               /\ sess' = [sess EXCEPT ![w] = [Idle EXCEPT !.pc = "commit",
                               !.product_id = p, !.quantity = q,
                               !.loaded = batches, !.session = s.batches]]
    /\ UNCHANGED <<products, transactions, suppliers, purchase_orders, now, resp,
                   seasonal_analyzer>>

\* db.commit() of the sale: the flush of the session's batches and the new
\* transaction row, in one database transaction.
Commit(w) ==
    /\ sess[w].pc = "commit"
    /\ batches' = flush(batches, sess[w].loaded, sess[w].session)
    /\ transactions' = Append(transactions,
                              Transaction(sess[w].product_id, None, "sale",
                                          sess[w].quantity))
    /\ sess' = [sess EXCEPT ![w].pc = "velocity"]
    /\ UNCHANGED <<products, suppliers, purchase_orders, now, resp,
                   seasonal_analyzer>>

\* The trigger's query of the recent sales.
ReadVelocity(w) ==
    /\ sess[w].pc = "velocity"
    /\ sess' = [sess EXCEPT ![w].pc = "stock",
                            ![w].recent = recent_sales_qty(transactions,
                                              sess[w].product_id, now)]
    /\ UNCHANGED <<products, batches, transactions, suppliers, purchase_orders, now,
                   resp,
                   seasonal_analyzer>>

\* product.total_stock, loaded from the table after the commit expired the session,
\* and the two threshold checks.
ReadStock(w) ==
    /\ sess[w].pc = "stock"
    /\ LET stock == total_stock(batches, sess[w].product_id) IN
       sess' = IF velocity_ok(sess[w].recent) /\ stockout_soon(stock, sess[w].recent)
               THEN [sess EXCEPT ![w].pc = "po_lookup", ![w].stock = stock]
               ELSE [Done(w, 200) EXCEPT ![w].stock = stock]
    /\ UNCHANGED <<products, batches, transactions, suppliers, purchase_orders, now,
                   resp,
                   seasonal_analyzer>>

\* The queries for an active order of the product and for the category's supplier.
CheckOrder(w) ==
    /\ sess[w].pc = "po_lookup"
    /\ sess' = IF \/ existing_po(purchase_orders, sess[w].product_id) # {}
                  \/ supplier_of(suppliers, category(sess[w].product_id)) = {}
               THEN Done(w, 200)
               ELSE [sess EXCEPT ![w].pc = "po_commit"]
    /\ UNCHANGED <<products, batches, transactions, suppliers, purchase_orders, now,
                   resp,
                   seasonal_analyzer>>

\* db.add(po) and db.commit() of the drafted order.
CommitOrder(w) ==
    /\ sess[w].pc = "po_commit"
    /\ purchase_orders' = Append(purchase_orders,
                                 new_order(suppliers, sess[w].product_id,
                                           sess[w].recent))
    /\ sess' = Done(w, 200)
    /\ UNCHANGED <<products, batches, transactions, suppliers, now, resp,
                   seasonal_analyzer>>

\* ----------------------------------------------- two concurrent restocks
\* A restock request arrives at thread w: the product query and the count of the
\* product's batches, on the rows the session reads at that moment.
CountBatches(w, p, q) ==
    /\ sess[w].pc = "idle"
    /\ p \in products
    /\ sess' = [sess EXCEPT ![w] = [Idle EXCEPT !.pc = "insert", !.product_id = p,
                                                !.quantity = q, !.loaded = batches]]
    /\ UNCHANGED <<products, batches, transactions, suppliers, purchase_orders, now,
                   resp, seasonal_analyzer>>

\* db.add(batch), db.add(tx) and db.commit() of the restock: the batch is numbered
\* from the count the thread took.
InsertBatch(w) ==
    /\ sess[w].pc = "insert"
    /\ batches' = Append(batches,
                         [product_id   |-> sess[w].product_id,
                          quantity     |-> sess[w].quantity,
                          expiry_date  |-> CHOOSE e \in ExpirySet : e > 0,
                          batch_number |-> batch_number(sess[w].loaded,
                                                        sess[w].product_id)])
    /\ transactions' = Append(transactions,
                              Transaction(sess[w].product_id, None, "restock",
                                          sess[w].quantity))
    /\ sess' = Done(w, 200)
    /\ UNCHANGED <<products, suppliers, purchase_orders, now, resp,
                   seasonal_analyzer>>

\* ---------------------------------------------------------- specification
\* The tables of a store in operation: the first product was restocked twice (4
\* units expiring on day 10, then 86 units that expired on day -5) and 84 units of
\* it were sold today, first-expiring batch first; the second product has no batch
\* yet; the supplier seeded for the first product's category; no order.
InitBatches ==
    <<[product_id |-> 1, quantity |-> 4, expiry_date |-> 10, batch_number |-> 1],
      [product_id |-> 1, quantity |-> 2, expiry_date |-> -5, batch_number |-> 2]>>

InitTransactions ==
    <<[product_id |-> 1, batch_id |-> None, transaction_type |-> "restock",
       quantity |-> 4, transaction_date |-> 0],
      [product_id |-> 1, batch_id |-> None, transaction_type |-> "restock",
       quantity |-> 86, transaction_date |-> 0],
      [product_id |-> 1, batch_id |-> None, transaction_type |-> "sale",
       quantity |-> 84, transaction_date |-> 0]>>

Init ==
    /\ products = ProductIds
    /\ batches = InitBatches
    /\ transactions = InitTransactions
    /\ suppliers = <<[category |-> "Dairy"]>>
    /\ purchase_orders = <<>>
    /\ now = 0
    /\ resp = [op |-> "none", product_id |-> None, batch_id |-> None, quantity |-> 0,
               status |-> 200, trigger |-> "none", before |-> batches,
               session |-> batches, ntx |-> Len(transactions), npo |-> 0,
               stock |-> {}]
    /\ sess = [w \in Workers |-> Idle]
    /\ seasonal_analyzer = SeasonalAnalyzer

\* The inputs of the requests. A handler answers a request that names the missing
\* product before it reads any other field, and it does not read the quantity of a
\* transaction that is neither a sale nor a wastage: one quantity stands for all
\* there.
AnyQty == CHOOSE q \in QtySet : q > 0
RequestBatches == {None} \cup (1 .. Len(batches) + 1)
SaleRequests == (ProductIds \X QtySet) \cup {<<MissingProduct, AnyQty>>}
WastageRequests ==
    (ProductIds \X RequestBatches \X QtySet) \cup {<<MissingProduct, None, AnyQty>>}
RecordRequests == (ProductIds \X OtherTypes) \cup {<<MissingProduct, "restock">>}
BatchRequests ==
    (ProductIds \X QtySet \X ExpirySet)
        \cup {<<MissingProduct, AnyQty, CHOOSE e \in ExpirySet : TRUE>>}

Next ==
    \/ \E r \in SaleRequests : Sale(r[1], r[2])
    \/ \E r \in WastageRequests : Wastage(r[1], r[2], r[3])
    \/ \E r \in RecordRequests : Record(r[1], r[2], AnyQty)
    \/ \E r \in BatchRequests : create_batch(r[1], r[2], r[3])
    \/ \E i \in DOMAIN purchase_orders : AdvanceOrder(i)

Spec == Init /\ [][Next]_vars

\* The read paths over a stock of two batches: the first of the first product, the
\* second of either product, each with any of the quantities and expiry dates below
\* (today is day 0, so the expiry date is the number of days left).
StockedQty == {0, 10}
ExpiryDays == {-1, 0, 1, 5, 6, 7, 8, 15, 16, 20}

ExpiryBatches ==
    {<<[product_id |-> 1, quantity |-> q1, expiry_date |-> e1, batch_number |-> 1],
       [product_id |-> p2, quantity |-> q2, expiry_date |-> e2,
        batch_number |-> IF p2 = 1 THEN 2 ELSE 1]>> :
        <<q1, e1, p2, q2, e2>> \in
            StockedQty \X ExpiryDays \X ProductIds \X StockedQty \X ExpiryDays}

ExpiryInit ==
    /\ products = ProductIds
    /\ batches \in ExpiryBatches
    /\ transactions = <<>>
    /\ suppliers = <<[category |-> "Dairy"]>>
    /\ purchase_orders = <<>>
    /\ now = 0
    /\ resp = [op |-> "none", product_id |-> None, status |-> 200]
    /\ sess = [w \in Workers |-> Idle]
    /\ seasonal_analyzer = SeasonalAnalyzer

\* The look-aheads asked of the expiring query: a week, and its default.
DaysArgs == {7, YearDays}

ExpiryNext ==
    \/ \E p \in ProductIds \cup {MissingProduct} : get_product(p)
    \/ \E days \in DaysArgs : get_expiring_batches(days)
    \/ daily_cron_check
    \/ get_dashboard
    \/ \E p \in ProductIds \cup {MissingProduct} : get_pulse_discount(p)

ExpirySpec == ExpiryInit /\ [][ExpiryNext]_vars

\* The categories of the training data, and the categories predictions are asked
\* for: those, names with a keyword of each heuristic rule (one in upper case, one
\* with keywords of two rules) and names with none.
Dairy          == <<"D", "a", "i", "r", "y">>
SoftDrinks     == <<"S", "o", "f", "t", " ", "D", "r", "i", "n", "k", "s">>
FrozenFoods    == <<"F", "r", "o", "z", "e", "n", " ", "F", "o", "o", "d", "s">>
STATIONERY     == <<"S", "T", "A", "T", "I", "O", "N", "E", "R", "Y">>
SnackFoods     == <<"S", "n", "a", "c", "k", " ", "F", "o", "o", "d", "s">>
UnseenCategory == <<"U", "n", "s", "e", "e", "n", " ", "C", "a", "t", "e", "g", "o", "r", "y">>
TrainCategories == {Dairy, SoftDrinks}
Categories == TrainCategories \cup {FrozenFoods, STATIONERY, SnackFoods, UnseenCategory}
Months == 1 .. 12

\* The slices of a dataset for one category: 1 to 3 groups (years or months) of one
\* row each, 3 groups of 20 rows each, and 2 or 3 groups whose aggregates make the
\* fit raise.
Slices(name) ==
    {[category |-> name, groups |-> g, data_points |-> g, bad |-> FALSE] :
        g \in 1 .. MinYears}
    \cup {[category |-> name, groups |-> MinYears, data_points |-> 20 * MinYears,
           bad |-> FALSE]}
    \cup {[category |-> name, groups |-> g, data_points |-> g, bad |-> TRUE] :
             g \in MinMonths .. MinYears}

\* The datasets: the empty one, one category, two categories in either order, and
\* one that cannot be read (a missing file or column, a malformed transaction).
Datasets ==
    {[readable |-> TRUE, slices |-> <<>>]}
    \cup {[readable |-> TRUE, slices |-> <<s>>] :
             s \in UNION {Slices(c) : c \in TrainCategories}}
    \cup {[readable |-> TRUE, slices |-> <<s, t>>] :
             s \in Slices(Dairy), t \in Slices(SoftDrinks)}
    \cup {[readable |-> TRUE, slices |-> <<t, s>>] :
             s \in Slices(Dairy), t \in Slices(SoftDrinks)}
    \cup {[readable |-> FALSE,
           slices |-> <<CHOOSE s \in Slices(Dairy) : s.groups = MinYears /\ ~s.bad>>]}

\* The values a fitted polynomial may take at a month, in hundredths.
RawPredictions == {-250, 0, 6125}

MlInit ==
    /\ products = ProductIds
    /\ batches = InitBatches
    /\ transactions = InitTransactions
    /\ suppliers = <<[category |-> "Dairy"]>>
    /\ purchase_orders = <<>>
    /\ now = 0
    /\ resp = [op |-> "none"]
    /\ sess = [w \in Workers |-> Idle]
    /\ seasonal_analyzer = SeasonalAnalyzer

MlNext ==
    \/ \E d \in Datasets : Train("train_from_csv", d)
    \/ \E d \in Datasets : Train("train_from_transactions", d)
    \/ \E name \in Categories, month \in Months :
          \E raw \in (IF name \in DOMAIN seasonal_analyzer.models
                      THEN RawPredictions ELSE {0}) :
              Predict(name, month, raw)

MlSpec == MlInit /\ [][MlNext]_vars

\* The sale requests of the two threads: quantities > 0 on the products that exist.
ConcRequests == ProductIds \X {q \in QtySet : q > 0}

ConcNext ==
    \/ \E w \in Workers, r \in ConcRequests : Begin(w, r[1], r[2])
    \/ \E w \in Workers : Commit(w)
    \/ \E w \in Workers : ReadVelocity(w)
    \/ \E w \in Workers : ReadStock(w)
    \/ \E w \in Workers : CheckOrder(w)
    \/ \E w \in Workers : CommitOrder(w)

ConcSpec == Init /\ [][ConcNext]_vars

\* TriggerSpec: sales on a store whose history is drawn around the thresholds of
\* the trigger. Each product has one batch; the log holds an earlier sale of the
\* first product (inside, at the edge of, or outside the 30-day window), a sale of
\* the second product today, and a restock; there may be an order already, in any
\* status; only the first product's category has a supplier.
HistoryQty == {2, 84}
HistoryDates == {0 - Window - 1, 0 - Window, 0}
StockQty == {2, 4, 30}
OrderStatuses == {"draft", "sent", "received"}

HistoryOrders ==
    {<<>>}
        \cup {<<[supplier_id |-> 1, product_id |-> 1, quantity |-> MinOrder,
                 status |-> s]>> : s \in OrderStatuses}
        \cup {<<[supplier_id |-> 1, product_id |-> 2, quantity |-> MinOrder,
                 status |-> "draft"]>>}

TriggerInit ==
    /\ products = ProductIds
    /\ \E s \in StockQty :
          batches = <<[product_id |-> 1, quantity |-> s, expiry_date |-> 10,
                       batch_number |-> 1],
                      [product_id |-> 2, quantity |-> 4, expiry_date |-> 10,
                       batch_number |-> 1]>>
    /\ \E q \in HistoryQty, d \in HistoryDates :
          transactions =
              <<[product_id |-> 1, batch_id |-> None, transaction_type |-> "sale",
                 quantity |-> q, transaction_date |-> d],
                [product_id |-> 2, batch_id |-> None, transaction_type |-> "sale",
                 quantity |-> 84, transaction_date |-> 0],
                [product_id |-> 1, batch_id |-> None, transaction_type |-> "restock",
                 quantity |-> 84, transaction_date |-> 0]>>
    /\ suppliers = <<[category |-> "Dairy"]>>
    /\ purchase_orders \in HistoryOrders
    /\ now = 0
    /\ resp = [op |-> "none", product_id |-> None, batch_id |-> None, quantity |-> 0,
               status |-> 200, trigger |-> "none", before |-> batches,
               session |-> batches, ntx |-> Len(transactions),
               npo |-> Len(purchase_orders), stock |-> {}]
    /\ sess = [w \in Workers |-> Idle]
    /\ seasonal_analyzer = SeasonalAnalyzer

TriggerNext == \E r \in SaleRequests : Sale(r[1], r[2])

TriggerSpec == TriggerInit /\ [][TriggerNext]_vars

\* DeleteSpec: deletions of products among the other requests, on the store of
\* Init after a first restock of the second product (4 units).
DeleteInit ==
    /\ products = ProductIds
    /\ batches = Append(InitBatches, [product_id |-> 2, quantity |-> 4,
                                      expiry_date |-> 60, batch_number |-> 1])
    /\ transactions = Append(InitTransactions,
                             [product_id |-> 2, batch_id |-> None,
                              transaction_type |-> "restock", quantity |-> 4,
                              transaction_date |-> 0])
    /\ suppliers = <<[category |-> "Dairy"]>>
    /\ purchase_orders = <<>>
    /\ now = 0
    /\ resp = [op |-> "none", product_id |-> None, batch_id |-> None, quantity |-> 0,
               status |-> 200, trigger |-> "none", before |-> batches,
               session |-> batches, ntx |-> Len(transactions), npo |-> 0,
               stock |-> {}]
    /\ sess = [w \in Workers |-> Idle]
    /\ seasonal_analyzer = SeasonalAnalyzer

\* The requests of DeleteSpec carry one quantity and one expiry date.
DeleteRequests == ProductIds \cup {MissingProduct}
StoreRequests == ProductIds
AnyExpiry == CHOOSE e \in ExpirySet : e > 0

DeleteNext ==
    \/ \E p \in DeleteRequests : delete_product(p)
    \/ \E p \in StoreRequests : Sale(p, AnyQty)
    \/ \E p \in StoreRequests, b \in DOMAIN batches : Wastage(p, b, AnyQty)
    \/ \E p \in StoreRequests : create_batch(p, AnyQty, AnyExpiry)

DeleteSpec == DeleteInit /\ [][DeleteNext]_vars

\* RestockSpec: two request threads, each serving one restock.
RestockRequests == ProductIds \X QtySet

RestockNext ==
    \E w \in Workers :
        \/ \E r \in RestockRequests : CountBatches(w, r[1], r[2])
        \/ InsertBatch(w)

RestockSpec == Init /\ [][RestockNext]_vars

\* ------------------------------------------------------- ledger properties
\* The last request was a sale that was answered with success.
SaleDone == resp.op = "sale" /\ resp.status = 200

\* What the last request took from batch i.
Deducted(i) == resp.before[i].quantity - batches[i].quantity

\* The batches the last request found, and those of them of product p in stock.
Before == DOMAIN resp.before
BeforeInStock(p) == in_stock(resp.before, p)

\* C1. FIFO by expiry: whenever a successful sale reduces a batch, every batch of
\* the product that was in stock with a strictly earlier expiry date ends the sale
\* at quantity 0.
C1_FifoByExpiry ==
    SaleDone =>
        \A i \in BeforeInStock(resp.product_id) :
            Deducted(i) > 0 =>
                \A j \in BeforeInStock(resp.product_id) :
                    resp.before[j].expiry_date < resp.before[i].expiry_date
                        => batches[j].quantity = 0

\* A sale has emptied the first-expiring batch, which had already expired, and
\* taken part of a later one.
C1_Witness ==
    /\ SaleDone
    /\ \E i, j \in BeforeInStock(resp.product_id) :
          /\ resp.before[j].expiry_date < resp.before[i].expiry_date
          /\ resp.before[j].expiry_date < now
          /\ Deducted(i) > 0 /\ batches[i].quantity > 0
          /\ batches[j].quantity = 0

\* C2. Conservation: after every successful sale the amounts taken from the
\* product's batches sum to the requested quantity, and total_stock has fallen by
\* the requested quantity.
C2_Conservation ==
    SaleDone =>
        /\ SumOver([i \in Before |-> Deducted(i)],
                   {i \in Before : resp.before[i].product_id = resp.product_id})
              = resp.quantity
        /\ total_stock(batches, resp.product_id)
              = total_stock(resp.before, resp.product_id) - resp.quantity

\* C2 for the sales with a quantity >= 0 (an observation, the claim is C2_Conservation).
C2_ConservationOfNonNegative == resp.quantity >= 0 => C2_Conservation

\* C3. Atomicity: a sale rejected with Insufficient stock leaves the tables as it
\* found them: every batch, the number of transactions, the number of orders.
C3_Atomicity ==
    (resp.op = "sale" /\ resp.status = 400) =>
        /\ batches = resp.before
        /\ Len(transactions) = resp.ntx
        /\ Len(purchase_orders) = resp.npo

\* A sale was rejected after its session had decremented a batch.
C3_Witness ==
    /\ resp.op = "sale" /\ resp.status = 400
    /\ \E i \in Before : resp.session[i].quantity < resp.before[i].quantity

\* C4. Non-negativity: every batch's quantity is >= 0 in every state.
C4_NonNegative == \A i \in DOMAIN batches : batches[i].quantity >= 0

\* The orders of product p that are draft or sent.
ActiveOrders(p) ==
    {i \in DOMAIN purchase_orders :
        /\ purchase_orders[i].product_id = p
        /\ purchase_orders[i].status \in {"draft", "sent"}}

\* The trigger conditions hold on the tables as the last sale left them.
TriggerConditions(p) ==
    /\ velocity_ok(recent_sales_qty(transactions, p, now))
    /\ stockout_soon(total_stock(batches, p), recent_sales_qty(transactions, p, now))

\* C5. De-duplication, one request at a time: every product has at most one order
\* that is draft or sent, and a successful sale that found such an order of its
\* product created no order.
C5_OneActiveOrder ==
    /\ \A p \in ProductIds : Cardinality(ActiveOrders(p)) <= 1
    /\ (SaleDone /\ \E i \in ActiveOrders(resp.product_id) : i <= resp.npo)
          => Len(purchase_orders) = resp.npo

\* A sale met the trigger conditions while an order of its product was active, and
\* the trigger ended without an order.
C5_Witness ==
    /\ SaleDone /\ resp.trigger = "no_order"
    /\ resp.quantity > 0
    /\ TriggerConditions(resp.product_id)
    /\ \E i \in ActiveOrders(resp.product_id) : i <= resp.npo
    /\ Len(purchase_orders) = resp.npo

\* The last request was a sale whose transaction was committed and whose trigger ran.
TriggerRan == resp.op = "sale" /\ resp.trigger \in {"no_order", "order", "error"}

WastageDone ==
    resp.op = "wastage" /\ resp.product_id \in ProductIds /\ resp.batch_id \in Before

\* C9. Wastage is clamped: a wastage naming an existing batch succeeds and leaves
\* in that batch max(0, quantity - requested), that is, takes
\* min(quantity, requested) from it.
C9_WastageClamped ==
    WastageDone =>
        /\ resp.status = 200
        /\ batches[resp.batch_id].quantity
              = Max(0, resp.before[resp.batch_id].quantity - resp.quantity)
        /\ Deducted(resp.batch_id)
              = Min(resp.before[resp.batch_id].quantity, resp.quantity)

\* A wastage asked for more than the batch held and left it at 0.
C9_Witness ==
    /\ WastageDone
    /\ resp.before[resp.batch_id].quantity > 0
    /\ resp.quantity > resp.before[resp.batch_id].quantity
    /\ batches[resp.batch_id].quantity = 0

\* C10. A restock of an existing product succeeds, adds one batch with the given
\* quantity and one restock transaction with that quantity, raises total_stock by
\* that quantity and leaves every other batch as it was.
C10_Restock ==
    (resp.op = "create_batch" /\ resp.product_id \in ProductIds) =>
        /\ resp.status = 200
        /\ Len(batches) = Len(resp.before) + 1
        /\ batches[Len(batches)].product_id = resp.product_id
        /\ batches[Len(batches)].quantity = resp.quantity
        /\ \A i \in Before : batches[i] = resp.before[i]
        /\ Len(transactions) = resp.ntx + 1
        /\ transactions[Len(transactions)].transaction_type = "restock"
        /\ transactions[Len(transactions)].quantity = resp.quantity
        /\ total_stock(batches, resp.product_id)
              = total_stock(resp.before, resp.product_id) + resp.quantity

\* C10 for the restocks with a quantity >= 0 (an observation, the claim is C10_Restock).
C10_RestockOfNonNegative == resp.quantity >= 0 => C10_Restock

\* The quantity batch i of the table bs adds to the stock of its product.
Contribution(bs, i) == IF bs[i].quantity > 0 THEN bs[i].quantity ELSE 0

\* The sum of the contributions of the batches of product p in the table bs.
StockOf(bs, p) ==
    SumOver([i \in DOMAIN bs |-> Contribution(bs, i)],
            {i \in DOMAIN bs : bs[i].product_id = p})

\* C11. total_stock is derived from the current batches: in every state the
\* total_stock of every product is the sum of the quantities of its batches that
\* have quantity > 0 (0 when it has none), and the current_stock the trigger of a
\* sale read is that sum over the batches as the sale's commit left them.
C11_TotalStockDerived ==
    /\ \A p \in ProductIds : total_stock(batches, p) = StockOf(batches, p)
    /\ \A p \in ProductIds :
          (\A i \in DOMAIN batches : batches[i].product_id # p)
              => total_stock(batches, p) = 0
    /\ TriggerRan => \A s \in resp.stock : s = StockOf(batches, resp.product_id)

\* The trigger of a sale read the stock after the sale had emptied one batch and
\* taken part of another, and the value it read is the lower stock.
C11_Witness ==
    /\ TriggerRan /\ resp.stock # {}
    /\ \E i, j \in BeforeInStock(resp.product_id) :
          /\ batches[i].quantity = 0
          /\ batches[j].quantity > 0 /\ Deducted(j) > 0
    /\ \A s \in resp.stock : s < total_stock(resp.before, resp.product_id)

\* C16. A sale, wastage or restock request naming a product that does not exist is
\* answered 404 (Product not found) and leaves the whole state unchanged: every
\* step that answers such a request leaves products, batches, transactions,
\* suppliers and purchase_orders as they were.
C16_UnknownProductRejected ==
    [][(resp' # resp /\ resp'.product_id \notin products)
          => /\ resp'.status = 404
             /\ UNCHANGED <<products, batches, transactions, suppliers,
                            purchase_orders>>]_vars

\* A restock naming the missing product was rejected in a store that holds an order.
C16_Witness ==
    /\ resp.op = "create_batch" /\ resp.product_id \notin products
    /\ resp.status = 404
    /\ purchase_orders # <<>>

\* C17. A wastage request naming a batch that does not exist is rejected: it is not
\* answered with success, no transaction is recorded and no batch changes.
C17_MissingBatchRejected ==
    (/\ resp.op = "wastage" /\ resp.product_id \in products
     /\ resp.batch_id # None /\ resp.batch_id \notin Before)
        => /\ resp.status # 200
           /\ Len(transactions) = resp.ntx
           /\ batches = resp.before

\* ------------------------------------------------------ expiry properties
\* The last request was one that reports a status per batch.
StatusReported ==
    /\ resp.op \in {"get_product", "get_expiring_batches", "daily_cron_check",
                    "get_dashboard"}
    /\ resp.status = 200

\* The days left of batch i today.
DaysLeft(i) == batches[i].expiry_date - now

\* The classification of the specification.
Classify(d) ==
    IF d <= 0 THEN "expired"
    ELSE IF d < 7 THEN "critical"
    ELSE IF d <= 15 THEN "warning"
    ELSE "fresh"

\* C12. Classification boundaries: every status reported for a batch is expired
\* when daysLeft <= 0, critical when 0 < daysLeft < 7, warning when
\* 7 <= daysLeft <= 15 and fresh when daysLeft > 15.
C12_ClassifyBoundaries ==
    StatusReported =>
        \A i \in DOMAIN resp.statuses : resp.statuses[i] = Classify(DaysLeft(i))

\* C12 for the alerts of get_expiring_batches on the batches with at most 15 days
\* left (an observation, the claim is C12_ClassifyBoundaries).
C12_AlertBoundariesUpTo15 ==
    (StatusReported /\ resp.op # "get_product") =>
        \A i \in DOMAIN resp.statuses :
            DaysLeft(i) <= 15 => resp.statuses[i] = Classify(DaysLeft(i))

\* C13. Batch.expiry_status, as GET /api/products/{id} reports it, is critical for 1
\* to 7 days left (7 included), warning for 8 to 15, expired for 0 or fewer and
\* fresh for more than 15.
C13_ExpiryStatusBands ==
    (resp.op = "get_product" /\ resp.status = 200) =>
        \A i \in DOMAIN resp.statuses :
            /\ DaysLeft(i) <= 0 => resp.statuses[i] = "expired"
            /\ DaysLeft(i) \in 1 .. 7 => resp.statuses[i] = "critical"
            /\ DaysLeft(i) \in 8 .. 15 => resp.statuses[i] = "warning"
            /\ DaysLeft(i) > 15 => resp.statuses[i] = "fresh"

\* A product was reported with a batch of 7 days left as critical and a batch of 8
\* days left as warning.
C13_Witness ==
    /\ resp.op = "get_product" /\ resp.status = 200
    /\ \E i, j \in DOMAIN resp.statuses :
          /\ DaysLeft(i) = 7 /\ resp.statuses[i] = "critical"
          /\ DaysLeft(j) = 8 /\ resp.statuses[j] = "warning"

\* C14. Consistency of the call sites: every status the alerts, the daily check and
\* the dashboard report for a batch is the Batch.expiry_status of that batch, and
\* the pulse discount applies to a product exactly when one of its batches in stock
\* has the expiry_status critical.
C14_ConsistentCallSites ==
    /\ StatusReported =>
          \A i \in DOMAIN resp.statuses :
              resp.statuses[i] = expiry_status(batches[i], now)
    /\ (resp.op = "get_pulse_discount" /\ resp.status = 200) =>
          (resp.has_discount <=>
              \E i \in batches_of(batches, resp.product_id) :
                  /\ batches[i].quantity > 0
                  /\ expiry_status(batches[i], now) = "critical")

\* The batches of product p that are in stock with 0 < daysLeft < 7.
Qualifying(p) ==
    {i \in DOMAIN batches : /\ batches[i].product_id = p
                            /\ batches[i].quantity > 0
                            /\ DaysLeft(i) \in 1 .. 6}

\* The last request was a pulse request on a product that exists.
PulseDone == resp.op = "get_pulse_discount" /\ resp.status = 200

\* The part of the pulse rule that does not depend on the price arithmetic.
PulseRule ==
    /\ resp.near_expiry_batches = Qualifying(resp.product_id)
    /\ resp.has_discount <=> Qualifying(resp.product_id) # {}
    /\ resp.discount_pct = IF resp.has_discount THEN 20 ELSE 0
    /\ ~resp.has_discount => resp.discounted_price = mrp(resp.product_id)

\* C15 as claimed. Pulse discount rule: hasDiscount is true with discountPct = 20 and
\* discountedPrice = 80% of mrp exactly when the product has a batch with
\* quantity > 0 and 0 < daysLeft < 7; otherwise hasDiscount is false,
\* discountPct = 0 and discountedPrice = mrp; the qualifying batches returned are
\* exactly the batches meeting the condition.
C15_PulseDiscount ==
    PulseDone =>
        /\ PulseRule
        /\ resp.has_discount =>
              100 * resp.discounted_price = 80 * mrp(resp.product_id)

\* C15 as amended: the same rule with discountedPrice = 80% of mrp rounded to two
\* decimals (the nearest cent): it differs from 80% of mrp by at most half a cent.
C15_PulseDiscountRounded ==
    PulseDone =>
        /\ PulseRule
        /\ resp.has_discount =>
              /\ 2 * (100 * resp.discounted_price - 80 * mrp(resp.product_id)) <= 100
              /\ 2 * (80 * mrp(resp.product_id) - 100 * resp.discounted_price) <= 100

\* A product priced 29.99 with one batch of 5 days left in stock and one batch out of
\* the band got the discount, the price 23.99 and the one qualifying batch.
C15_Witness ==
    /\ PulseDone /\ resp.has_discount
    /\ resp.discount_pct = 20
    /\ 5 * resp.discounted_price # 4 * mrp(resp.product_id)
    /\ \E i \in resp.near_expiry_batches : DaysLeft(i) = 5 /\ batches[i].quantity = 10
    /\ Cardinality(resp.near_expiry_batches) = 1

\* -------------------------------------------------- forecaster properties
\* The last call was a prediction for a category that has no trained model.
HeuristicPrediction ==
    resp.op = "predict_demand" /\ resp.category \notin DOMAIN seasonal_analyzer.models

\* The keywords of all the heuristic rules.
Keywords ==
    {drink, beverage, juice, cold, cream, frozen, stationery, book, pen, snack, food}

\* C18. Heuristic fallback: every prediction for a category without a trained model,
\* for every month 1..12, has confidence exactly 0.5 and predictedDemand > 0; the
\* demand is the base demand 50 times the multiplier found by matching the keywords
\* on the lower-cased name, and 50 when the name holds no keyword in any case.
C18_HeuristicFallback ==
    HeuristicPrediction =>
        /\ resp.month \in 1 .. 12
        /\ resp.confidence = 50
        /\ resp.predicted_demand > 0
        /\ 10 * resp.predicted_demand
              = 100 * 50 * multiplier(lower(resp.category), resp.month)
        /\ (\A w \in Keywords : ~contains(lower(resp.category), w))
              => resp.predicted_demand = 100 * 50

\* After a training run that gave another category a model, the prediction for the
\* untrained category STATIONERY in March is 75.00 with confidence 0.5.
C18_Witness ==
    /\ HeuristicPrediction
    /\ seasonal_analyzer.is_trained /\ DOMAIN seasonal_analyzer.models # {}
    /\ resp.category = STATIONERY /\ resp.month = 3
    /\ resp.predicted_demand = 7500 /\ resp.confidence = 50

\* The last call was a training call that went through the categories of a dataset
\* without an exception.
Trained ==
    /\ resp.op \in {"train_from_csv", "train_from_transactions"}
    /\ ~resp.failed
    /\ ~(resp.op = "train_from_transactions" /\ resp.dataset.slices = <<>>)

\* The forecaster after the training call op on the dataset d, started from analyzer.
After(op, analyzer, d) ==
    IF op = "train_from_csv" THEN train_from_csv(analyzer, d).analyzer
    ELSE train_from_transactions(analyzer, d).analyzer

\* C19. Training is idempotent and replacing: after a training run, training again on
\* the same observations leaves the same models, and the models are those the
\* dataset of the run alone determines: the ones a forecaster that was never
\* trained gets from it.
C19_TrainingReplaces ==
    Trained =>
        /\ After(resp.op, seasonal_analyzer, resp.dataset).models
              = seasonal_analyzer.models
        /\ seasonal_analyzer.models
              = After(resp.op, SeasonalAnalyzer, resp.dataset).models

\* The first half of C19 alone: training twice on the same observations leaves the
\* models of training once (an observation, the claim is C19_TrainingReplaces).
C19_Idempotent ==
    Trained =>
        After(resp.op, seasonal_analyzer, resp.dataset).models
            = seasonal_analyzer.models

\* C20. A training run that fails raises nothing to the caller and leaves the
\* forecaster as it was before the run (the same models, the same is_trained), and
\* training on an empty transaction list changes nothing.
C20_FailedTrainingLeavesState ==
    /\ (resp.op \in {"train_from_csv", "train_from_transactions"} /\ resp.failed)
          => /\ ~resp.raised
             /\ seasonal_analyzer = resp.before
    /\ (resp.op = "train_from_transactions" /\ resp.dataset.slices = <<>>)
          => /\ ~resp.raised
             /\ seasonal_analyzer = resp.before

\* The parts of C20 that hold: train_from_csv never raises, a run that fails leaves
\* is_trained as it was, and training on an empty transaction list changes nothing
\* (an observation, the claim is C20_FailedTrainingLeavesState).
C20_CsvNeverRaises ==
    /\ resp.op = "train_from_csv" => ~resp.raised
    /\ (resp.op \in {"train_from_csv", "train_from_transactions"} /\ resp.failed)
          => seasonal_analyzer.is_trained = resp.before.is_trained
    /\ (resp.op = "train_from_transactions" /\ resp.dataset.slices = <<>>)
          => (~resp.raised /\ seasonal_analyzer = resp.before)

\* ------------------------------------------------ replenishment properties
\* The sum of the quantities of product p's sales of the trailing 30 days in txs.
Sales30(txs, p) ==
    SumOver([i \in DOMAIN txs |-> txs[i].quantity],
            {i \in DOMAIN txs : /\ txs[i].product_id = p
                                /\ txs[i].transaction_type = "sale"
                                /\ now - txs[i].transaction_date <= 30})

\* The four conditions of the trigger for product p on the tables txs, bs and pos:
\* velocity = sum / 30 > 0.1, stock / velocity <= 2.0, no order of p that is draft
\* or sent, a supplier of p's category.
OrderDue(txs, bs, pos, p) ==
    /\ 10 * Sales30(txs, p) > 30
    /\ 30 * StockOf(bs, p) <= 2 * Sales30(txs, p)
    /\ ~\E i \in DOMAIN pos : pos[i].product_id = p /\ pos[i].status \in {"draft", "sent"}
    /\ \E k \in DOMAIN suppliers : suppliers[k].category = category(p)

\* This step is a sale that succeeded (its transaction is committed).
SaleStep ==
    /\ Len(transactions') = Len(transactions) + 1
    /\ resp'.op = "sale" /\ resp'.status = 200

\* This step added one draft order of product p, addressed to the supplier of p's
\* category, and left every other order as it was.
OneDraftAdded(p) ==
    /\ Len(purchase_orders') = Len(purchase_orders) + 1
    /\ SubSeq(purchase_orders', 1, Len(purchase_orders)) = purchase_orders
    /\ LET po == purchase_orders'[Len(purchase_orders')]
       IN  /\ po.product_id = p
           /\ po.status = "draft"
           /\ po.supplier_id \in DOMAIN suppliers
           /\ suppliers[po.supplier_id].category = category(p)

C22_TriggerOnlyAfterSale ==
    [][(resp' # resp /\ ~(resp'.op = "sale" /\ resp'.status = 200))
          => purchase_orders' = purchase_orders]_vars

\* A wastage left its product with the four conditions of the trigger met, and no
\* order was drafted.
C22_Witness ==
    /\ resp.op = "wastage" /\ resp.status = 200
    /\ \E i \in Before : Deducted(i) > 0
    /\ OrderDue(transactions, batches, purchase_orders, resp.product_id)
    /\ purchase_orders = <<>>

\* C23. Drafted order size: the order a sale drafted has quantity
\* max(20, round(velocity * 7)), velocity being the 30-day sale sum / 30 and round
\* rounding to the nearest integer, and the quantity is at least 20.
C23_OrderSizeRounded ==
    (SaleDone /\ resp.trigger = "order") =>
        LET po == purchase_orders[Len(purchase_orders)]
        IN  /\ po.quantity = Max(20, round(7 * Sales30(transactions, resp.product_id), 30))
            /\ po.quantity >= 20

\* C23 with the truncation int() of the code in place of round (an observation, the
\* claim is C23_OrderSizeRounded).
C23_OrderSizeTruncated ==
    (SaleDone /\ resp.trigger = "order") =>
        LET po == purchase_orders[Len(purchase_orders)]
        IN  /\ po.quantity
                  = Max(20, (7 * Sales30(transactions, resp.product_id)) \div 30)
            /\ po.quantity >= 20

\* C24. Every recorded transaction has type sale, wastage or restock.
C24_KnownTypes ==
    \A i \in DOMAIN transactions :
        transactions[i].transaction_type \in {"sale", "wastage", "restock"}

\* C27. The quantity recorded on a wastage transaction of a positive quantity is
\* the amount the request removed from stock.
C27_WastageRecordsRemoved ==
    (resp.op = "wastage" /\ resp.status = 200 /\ resp.quantity > 0) =>
        transactions[Len(transactions)].quantity
            = SumOver([i \in Before |-> Deducted(i)], Before)

\* C28. A wastage request changes no batch but the one it names, and that one
\* only when it is a batch of the product of the request.
C28_WastageOwnProductOnly ==
    resp.op = "wastage" =>
        /\ Len(batches) = Len(resp.before)
        /\ \A i \in Before :
              batches[i] # resp.before[i]
                  => i = resp.batch_id /\ resp.before[i].product_id = resp.product_id

\* C30. A restock transaction is recorded only together with a new batch: every
\* product has as many restock transactions as batches.
C30_RestockOnlyWithBatch ==
    \A p \in ProductIds :
        Cardinality({i \in DOMAIN transactions :
                        /\ transactions[i].product_id = p
                        /\ transactions[i].transaction_type = "restock"})
            = Cardinality({i \in DOMAIN batches : batches[i].product_id = p})

\* ----------------------------------------------------- deletion properties
\* The rows of product p in a table, in the order of the table.
RowsOf(rows, p) == SelectSeq(rows, LAMBDA r : r.product_id = p)

\* Every row of table old is in table new, unchanged and at its place.
Extends(new, old) == Len(new) >= Len(old) /\ SubSeq(new, 1, Len(old)) = old

\* This step deleted a product.
DeleteStep == products' # products

\* C25 as claimed. Transactions are append-only: no step updates or deletes a
\* recorded transaction.
C25_AppendOnly == [][Extends(transactions', transactions)]_vars

\* C25. Transactions are append-only but for the cascade: a step that deletes no
\* product leaves every recorded transaction unchanged and at its place, and no
\* step updates or deletes a transaction of a product that is still there.
C25_AppendOnlyButCascade ==
    [][/\ ~DeleteStep => Extends(transactions', transactions)
       /\ \A o \in products' :
             Extends(RowsOf(transactions', o), RowsOf(transactions, o))]_vars

\* A product was deleted with its transactions, and transactions of the other
\* product are still on record.
C25_Witness ==
    /\ resp.op = "delete_product" /\ resp.status = 200
    /\ Len(transactions) < resp.ntx
    /\ \E i \in DOMAIN transactions : transactions[i].product_id \in products

\* C26. Deleting a product removes that product, its batches and its transactions
\* and nothing else: the batches and transactions of every other product, the
\* suppliers and the purchase orders (those of the deleted product included) are
\* unchanged.
C26_DeleteCascade ==
    [][DeleteStep =>
          LET p == resp'.product_id
          IN  /\ resp'.op = "delete_product" /\ resp'.status = 200
              /\ products' = products \ {p}
              /\ RowsOf(batches', p) = <<>> /\ RowsOf(transactions', p) = <<>>
              /\ Len(batches') = Len(batches) - Len(RowsOf(batches, p))
              /\ Len(transactions') = Len(transactions) - Len(RowsOf(transactions, p))
              /\ \A o \in ProductIds \ {p} :
                    /\ RowsOf(batches', o) = RowsOf(batches, o)
                    /\ RowsOf(transactions', o) = RowsOf(transactions, o)
              /\ suppliers' = suppliers
              /\ purchase_orders' = purchase_orders]_vars

\* A product was deleted while an order of it was on file and the other product
\* had batches: the order and those batches are still there.
C26_Witness ==
    /\ resp.op = "delete_product" /\ resp.status = 200
    /\ resp.product_id \notin products
    /\ \E i \in DOMAIN purchase_orders :
          purchase_orders[i].product_id = resp.product_id
    /\ \E i \in DOMAIN batches : batches[i].product_id \in products
    /\ Len(batches) < Len(resp.before)

\* C29. Batch numbers are unique within a product: no two batches of a product
\* have the same batch_number.
C29_UniqueBatchNumbers ==
    \A i, j \in DOMAIN batches :
        (i # j /\ batches[i].product_id = batches[j].product_id)
            => batches[i].batch_number # batches[j].batch_number

\* ------------------------------------------------- concurrency properties
\* Both threads have answered their sale.
BothDone == \A w \in Workers : sess[w].pc = "done"

\* The quantity the threads sold of product p: the quantities of the sales that
\* were answered with success.
Sold(p) ==
    SumOver([w \in Workers |-> sess[w].quantity],
            {w \in Workers : sess[w].product_id = p /\ sess[w].status = 200})

\* total_stock of product p before the two sales.
InitialStock(p) == total_stock(InitBatches, p)

\* C6. No double-selling: when the two concurrent sales have ended, the
\* successful ones sold no more of a product than was in stock before them, and
\* the product's total_stock is the initial one minus what they sold.
C6_NoDoubleSelling ==
    BothDone =>
        \A p \in ProductIds :
            /\ Sold(p) <= InitialStock(p)
            /\ total_stock(batches, p) = InitialStock(p) - Sold(p)

\* C7. De-duplication under concurrency: no interleaving of two sales leaves a
\* product with two orders that are draft or sent.
C7_OneActiveOrderConcurrent == \A p \in ProductIds : Cardinality(ActiveOrders(p)) <= 1

====
